---------------------------- MODULE Spec2Model ----------------------------
(***************************************************************************)
(* A model of lambda_function.py: the Textract document processor.         *)
(*                                                                         *)
(* A Textract response is a flat sequence of blocks.  A block is a record  *)
(* whose field "has" is the set of the optional attributes the block       *)
(* carries (a Python dict may lack 'Text', 'Relationships', 'RowIndex',    *)
(* 'ColumnIndex' or 'EntityTypes'); reading a lacking attribute with       *)
(* block['X'] raises KeyError, which the model renders as a result with    *)
(* raised = TRUE.  A string is a sequence of one-character strings, so     *)
(* that join, strip and slicing are computed, not assumed.                 *)
(***************************************************************************)
EXTENDS Integers, Sequences, FiniteSets, TLC

VARIABLES
    event,            \* the invocation event given to lambda_handler
    env_bucket,       \* os.environ.get('DOCUMENT_BUCKET'): "" when unset
    text_response,    \* Blocks of the detect_document_text response
    analyze_response, \* Blocks of the analyze_document response
    pc,               \* position in lambda_handler (or in the function applied)
    extracted_text,   \* result of extract_text
    forms,            \* result of extract_forms
    tables,           \* result of extract_tables
    calls,            \* the service calls made so far, in order, with their outcome
    s3_objects,       \* the objects put_object has written
    response          \* the handler's return value

vars == <<event, env_bucket, text_response, analyze_response, pc,
          extracted_text, forms, tables, calls, s3_objects, response>>

----------------------------------------------------------------------------
(* Strings.                                                                *)

NL == "\n"
SP == " "

\* The texts the model draws are made of "a", "b" and SP: a Textract text
\* holds no newline.

\* ''.join / sep.join(parts)
RECURSIVE join(_, _)
join(sep, parts) ==
    IF parts = <<>> THEN <<>>
    ELSE IF Len(parts) = 1 THEN Head(parts)
    ELSE Head(parts) \o <<sep>> \o join(sep, Tail(parts))

\* str.lstrip(): drops leading whitespace (SP is the only whitespace of the
\* texts drawn)
RECURSIVE lstrip(_)
lstrip(s) ==
    IF s # <<>> /\ Head(s) = SP THEN lstrip(Tail(s)) ELSE s

\* str.rstrip(): drops trailing whitespace
RECURSIVE rstrip(_)
rstrip(s) ==
    IF s # <<>> /\ s[Len(s)] = SP THEN rstrip(SubSeq(s, 1, Len(s) - 1)) ELSE s

\* str.strip()
strip(s) == rstrip(lstrip(s))

----------------------------------------------------------------------------
(* Blocks and results.                                                     *)

\* A block (a dict of the response's 'Blocks' list).  The value of a field
\* that "has" does not name is a filler the model never reads.
Block(id, type, has, text, entity, row, col, rels) ==
    [Id |-> id, BlockType |-> type, has |-> has, Text |-> text,
     EntityTypes |-> entity, RowIndex |-> row, ColumnIndex |-> col,
     Relationships |-> rels]

\* 'X' in block
HasKey(block, k) == k \in block.has

\* A relationship of a block: {'Type': ..., 'Ids': [...]}
Rel(type, ids) == [Type |-> type, Ids |-> ids]

\* A call that returned v / a call that raised (KeyError in the extractors).
Ok(v) == [raised |-> FALSE, value |-> v]
Raised == [raised |-> TRUE, value |-> <<>>]

----------------------------------------------------------------------------
(* extract_text                                                            *)

\* A faulty variant of extract_text_loop, with "if block['Text']:" before the
\* append: a LINE block of empty text is skipped.
RECURSIVE extract_text_loop_skip_empty(_, _)
extract_text_loop_skip_empty(Blocks, text_blocks) ==
    IF Blocks = <<>> THEN Ok(join(NL, text_blocks))
    ELSE LET block == Head(Blocks) IN
         IF block.BlockType = "LINE"
         THEN IF ~HasKey(block, "Text") THEN Raised
              ELSE extract_text_loop_skip_empty(Tail(Blocks),
                       IF block.Text # <<>> THEN Append(text_blocks, block.Text)
                       ELSE text_blocks)
         ELSE extract_text_loop_skip_empty(Tail(Blocks), text_blocks)

\* The loop of extract_text over response['Blocks'], then the join.
RECURSIVE extract_text_loop(_, _)
extract_text_loop(Blocks, text_blocks) ==
    IF Blocks = <<>> THEN Ok(join(NL, text_blocks))
    ELSE LET block == Head(Blocks) IN
         IF block.BlockType = "LINE"
         THEN IF ~HasKey(block, "Text") THEN Raised   \* block['Text']: KeyError
              ELSE extract_text_loop(Tail(Blocks), Append(text_blocks, block.Text))
         ELSE extract_text_loop(Tail(Blocks), text_blocks)

extract_text(Blocks) == extract_text_loop(Blocks, <<>>)

----------------------------------------------------------------------------
(* Python dicts: insertion-ordered keys, last write wins.                  *)

EmptyDict == [keys |-> <<>>, val |-> <<>>]

\* k in d
DictHas(d, k) == k \in DOMAIN d.val

\* d[k] = v
DictPut(d, k, v) ==
    [keys |-> IF DictHas(d, k) THEN d.keys ELSE Append(d.keys, k),
     val  |-> (k :> v) @@ d.val]

\* d[k]
DictGet(d, k) == d.val[k]

\* len(d)
DictLen(d) == Len(d.keys)

----------------------------------------------------------------------------
(* get_text and find_value_block                                           *)

\* A faulty variant of get_text_ids, with block_map[child_id] unguarded:
\* KeyError on an unknown id.
RECURSIVE get_text_ids_unguarded(_, _, _)
get_text_ids_unguarded(Ids, block_map, text) ==
    IF Ids = <<>> THEN Ok(text)
    ELSE LET child_id == Head(Ids) IN
         IF ~DictHas(block_map, child_id) THEN Raised
         ELSE LET word == DictGet(block_map, child_id) IN
              IF word.BlockType = "WORD"
              THEN IF ~HasKey(word, "Text") THEN Raised
                   ELSE get_text_ids_unguarded(Tail(Ids), block_map,
                                               text \o word.Text \o <<SP>>)
              ELSE get_text_ids_unguarded(Tail(Ids), block_map, text)

\* The inner loop of get_text: for child_id in relationship['Ids'].
RECURSIVE get_text_ids(_, _, _)
get_text_ids(Ids, block_map, text) ==
    IF Ids = <<>> THEN Ok(text)
    ELSE LET child_id == Head(Ids) IN
         IF DictHas(block_map, child_id)
         THEN LET word == DictGet(block_map, child_id) IN
              IF word.BlockType = "WORD"
              THEN IF ~HasKey(word, "Text") THEN Raised   \* word['Text']: KeyError
                   ELSE get_text_ids(Tail(Ids), block_map, text \o word.Text \o <<SP>>)
              ELSE get_text_ids(Tail(Ids), block_map, text)
         ELSE get_text_ids(Tail(Ids), block_map, text)

\* The outer loop of get_text: for relationship in block['Relationships'].
RECURSIVE get_text_rels(_, _, _)
get_text_rels(Rels, block_map, text) ==
    IF Rels = <<>> THEN Ok(text)
    ELSE LET relationship == Head(Rels) IN
         IF relationship.Type = "CHILD"
         THEN LET r == get_text_ids(relationship.Ids, block_map, text) IN
              IF r.raised THEN Raised
              ELSE get_text_rels(Tail(Rels), block_map, r.value)
         ELSE get_text_rels(Tail(Rels), block_map, text)

get_text(block, block_map) ==
    LET r == IF HasKey(block, "Relationships")
             THEN get_text_rels(block.Relationships, block_map, <<>>)
             ELSE Ok(<<>>)
    IN  IF r.raised THEN Raised ELSE Ok(strip(r.value))

\* None is <<>>, a block b is <<b>>.
RECURSIVE find_value_ids(_, _)
find_value_ids(Ids, value_map) ==
    IF Ids = <<>> THEN <<>>
    ELSE IF DictHas(value_map, Head(Ids)) THEN <<DictGet(value_map, Head(Ids))>>
    ELSE find_value_ids(Tail(Ids), value_map)

RECURSIVE find_value_rels(_, _)
find_value_rels(Rels, value_map) ==
    IF Rels = <<>> THEN <<>>
    ELSE LET relationship == Head(Rels)
             found == IF relationship.Type = "VALUE"
                      THEN find_value_ids(relationship.Ids, value_map)
                      ELSE <<>>
         IN  IF found # <<>> THEN found
             ELSE find_value_rels(Tail(Rels), value_map)

find_value_block(key_block, value_map) ==
    IF HasKey(key_block, "Relationships")
    THEN find_value_rels(key_block.Relationships, value_map)
    ELSE <<>>

----------------------------------------------------------------------------
(* extract_forms                                                           *)

\* The first loop of extract_forms: block_map, key_map and value_map.
RECURSIVE forms_index(_, _)
forms_index(Blocks, maps) ==
    IF Blocks = <<>> THEN Ok(maps)
    ELSE LET block == Head(Blocks)
             block_id == block.Id
             bm == DictPut(maps.block_map, block_id, block)
         IN  IF block.BlockType = "KEY_VALUE_SET"
             THEN IF ~HasKey(block, "EntityTypes") THEN Raised  \* KeyError
                  ELSE IF "KEY" \in block.EntityTypes
                  THEN forms_index(Tail(Blocks),
                           [maps EXCEPT !.block_map = bm,
                                        !.key_map = DictPut(@, block_id, block)])
                  ELSE forms_index(Tail(Blocks),
                           [maps EXCEPT !.block_map = bm,
                                        !.value_map = DictPut(@, block_id, block)])
             ELSE forms_index(Tail(Blocks), [maps EXCEPT !.block_map = bm])

\* A faulty variant of forms_put, with "if key_text not in forms": the first
\* pair of a key text is kept.
forms_put_first_wins(forms_, key_block, maps) ==
    LET value_block == find_value_block(key_block, maps.value_map)
        key_text == get_text(key_block, maps.block_map)
        value_text == IF value_block # <<>>
                      THEN get_text(value_block[1], maps.block_map)
                      ELSE Ok(<<>>)
    IN  IF key_text.raised \/ value_text.raised THEN Raised
        ELSE IF key_text.value # <<>> /\ value_text.value # <<>>
                /\ ~DictHas(forms_, key_text.value)
        THEN Ok(DictPut(forms_, key_text.value, value_text.value))
        ELSE Ok(forms_)

\* A faulty variant of forms_put, with "if key_text:" alone: a pair of empty
\* value text is kept.
forms_put_unfiltered(forms_, key_block, maps) ==
    LET value_block == find_value_block(key_block, maps.value_map)
        key_text == get_text(key_block, maps.block_map)
        value_text == IF value_block # <<>>
                      THEN get_text(value_block[1], maps.block_map)
                      ELSE Ok(<<>>)
    IN  IF key_text.raised \/ value_text.raised THEN Raised
        ELSE IF key_text.value # <<>>
        THEN Ok(DictPut(forms_, key_text.value, value_text.value))
        ELSE Ok(forms_)

\* One pass of the second loop: the pair of one key block, or nothing.
forms_put(forms_, key_block, maps) ==
    LET value_block == find_value_block(key_block, maps.value_map)
        key_text == get_text(key_block, maps.block_map)
        value_text == IF value_block # <<>>
                      THEN get_text(value_block[1], maps.block_map)
                      ELSE Ok(<<>>)
    IN  IF key_text.raised \/ value_text.raised THEN Raised
        ELSE IF key_text.value # <<>> /\ value_text.value # <<>>
        THEN Ok(DictPut(forms_, key_text.value, value_text.value))
        ELSE Ok(forms_)

\* The second loop of extract_forms: for key_block_id, key_block in key_map.items().
RECURSIVE forms_pairs(_, _, _)
forms_pairs(key_ids, maps, forms_) ==
    IF key_ids = <<>> THEN Ok(forms_)
    ELSE LET r == forms_put(forms_, DictGet(maps.key_map, Head(key_ids)), maps) IN
         IF r.raised THEN Raised
         ELSE forms_pairs(Tail(key_ids), maps, r.value)

extract_forms(Blocks) ==
    LET idx == forms_index(Blocks, [block_map |-> EmptyDict, key_map |-> EmptyDict,
                                    value_map |-> EmptyDict])
    IN  IF idx.raised THEN Raised
        ELSE forms_pairs(idx.value.key_map.keys, idx.value, EmptyDict)

----------------------------------------------------------------------------
(* extract_tables                                                          *)

\* x in a list
InList(x, list) == \E i \in 1..Len(list) : list[i] = x

\* sorted(keys) of a set of integers
RECURSIVE sorted(_)
sorted(S) ==
    IF S = {} THEN <<>>
    ELSE LET m == CHOOSE x \in S : \A y \in S : x <= y
         IN  <<m>> \o sorted(S \ {m})

\* next((b for b in Blocks if b['Id'] == word_id), None): None is <<>>.
RECURSIVE first_with_id(_, _)
first_with_id(Blocks, word_id) ==
    IF Blocks = <<>> THEN <<>>
    ELSE IF Head(Blocks).Id = word_id THEN <<Head(Blocks)>>
    ELSE first_with_id(Tail(Blocks), word_id)

\* for word_id in rel['Ids'] (lines 184-187)
RECURSIVE cell_text_ids(_, _, _)
cell_text_ids(Ids, Blocks, cell_text) ==
    IF Ids = <<>> THEN Ok(cell_text)
    ELSE LET word == first_with_id(Blocks, Head(Ids)) IN
         IF word # <<>> /\ word[1].BlockType = "WORD"
         THEN IF ~HasKey(word[1], "Text") THEN Raised   \* word['Text']: KeyError
              ELSE cell_text_ids(Tail(Ids), Blocks, cell_text \o word[1].Text \o <<SP>>)
         ELSE cell_text_ids(Tail(Ids), Blocks, cell_text)

\* for rel in cell['Relationships'] (lines 182-187)
RECURSIVE cell_text_rels(_, _, _)
cell_text_rels(Rels, Blocks, cell_text) ==
    IF Rels = <<>> THEN Ok(cell_text)
    ELSE LET rel == Head(Rels) IN
         IF rel.Type = "CHILD"
         THEN LET r == cell_text_ids(rel.Ids, Blocks, cell_text) IN
              IF r.raised THEN Raised
              ELSE cell_text_rels(Tail(Rels), Blocks, r.value)
         ELSE cell_text_rels(Tail(Rels), Blocks, cell_text)

\* cell.get('RowIndex', 1), cell.get('ColumnIndex', 1)
row_index_of(cell) == IF HasKey(cell, "RowIndex") THEN cell.RowIndex ELSE 1
col_index_of(cell) == IF HasKey(cell, "ColumnIndex") THEN cell.ColumnIndex ELSE 1

\* rows[row_index][col_index] = text, creating rows[row_index] when needed.
\* rows is a function from row indices to functions from column indices.
rows_put(rows, row_index, col_index, text) ==
    LET row == IF row_index \in DOMAIN rows THEN rows[row_index] ELSE <<>>
    IN  (row_index :> ((col_index :> text) @@ row)) @@ rows

\* for cell in cells (lines 172-189)
RECURSIVE table_rows(_, _, _)
table_rows(cells, Blocks, rows) ==
    IF cells = <<>> THEN Ok(rows)
    ELSE LET cell == Head(cells) IN
         IF cell.BlockType = "CELL"
         THEN LET t == IF HasKey(cell, "Relationships")
                       THEN cell_text_rels(cell.Relationships, Blocks, <<>>)
                       ELSE Ok(<<>>)
              IN  IF t.raised THEN Raised
                  ELSE table_rows(Tail(cells), Blocks,
                           rows_put(rows, row_index_of(cell), col_index_of(cell),
                                    strip(t.value)))
         ELSE table_rows(Tail(cells), Blocks, rows)

\* [row.get(col, '') for col in sorted(row.keys())]
row_list(row) ==
    LET cols == sorted(DOMAIN row)
    IN  [i \in 1..Len(cols) |-> IF cols[i] \in DOMAIN row THEN row[cols[i]] ELSE <<>>]

\* for row_idx in sorted(rows.keys()): table.append(...) (lines 191-193)
rows_emit(rows) ==
    LET idxs == sorted(DOMAIN rows)
    IN  [i \in 1..Len(idxs) |-> row_list(rows[idxs[i]])]

\* [b for id in cell_ids for b in Blocks if b['Id'] == id]
RECURSIVE blocks_in_list_order(_, _)
blocks_in_list_order(ids, Blocks) ==
    IF ids = <<>> THEN <<>>
    ELSE LET HasId(block) == block.Id = Head(ids)
         IN  SelectSeq(Blocks, HasId) \o blocks_in_list_order(Tail(ids), Blocks)

\* A faulty variant of table_rels, with the cells taken in the order of the
\* id list.
RECURSIVE table_rels_list_order(_, _, _)
table_rels_list_order(Rels, Blocks, table) ==
    IF Rels = <<>> THEN Ok(table)
    ELSE LET relationship == Head(Rels) IN
         IF relationship.Type = "CHILD"
         THEN LET cells == blocks_in_list_order(relationship.Ids, Blocks)
                  rows == table_rows(cells, Blocks, <<>>)
              IN  IF rows.raised THEN Raised
                  ELSE table_rels_list_order(Tail(Rels), Blocks,
                                             table \o rows_emit(rows.value))
         ELSE table_rels_list_order(Tail(Rels), Blocks, table)

\* for relationship in table_block['Relationships'] (lines 166-193)
RECURSIVE table_rels(_, _, _)
table_rels(Rels, Blocks, table) ==
    IF Rels = <<>> THEN Ok(table)
    ELSE LET relationship == Head(Rels) IN
         IF relationship.Type = "CHILD"
         THEN LET cell_ids == relationship.Ids
                  IsListed(block) == InList(block.Id, cell_ids)
                  cells == SelectSeq(Blocks, IsListed)
                  rows == table_rows(cells, Blocks, <<>>)
              IN  IF rows.raised THEN Raised
                  ELSE table_rels(Tail(Rels), Blocks, table \o rows_emit(rows.value))
         ELSE table_rels(Tail(Rels), Blocks, table)

\* A faulty variant of tables_loop, without "if table:": an empty grid is
\* appended too.
RECURSIVE tables_loop_keep_empty(_, _, _)
tables_loop_keep_empty(table_blocks, Blocks, tables_) ==
    IF table_blocks = <<>> THEN Ok(tables_)
    ELSE LET table_block == Head(table_blocks)
             table == IF HasKey(table_block, "Relationships")
                      THEN table_rels(table_block.Relationships, Blocks, <<>>)
                      ELSE Ok(<<>>)
         IN  IF table.raised THEN Raised
             ELSE tables_loop_keep_empty(Tail(table_blocks), Blocks,
                      Append(tables_, table.value))

\* for table_block in table_blocks (lines 163-196)
RECURSIVE tables_loop(_, _, _)
tables_loop(table_blocks, Blocks, tables_) ==
    IF table_blocks = <<>> THEN Ok(tables_)
    ELSE LET table_block == Head(table_blocks)
             table == IF HasKey(table_block, "Relationships")
                      THEN table_rels(table_block.Relationships, Blocks, <<>>)
                      ELSE Ok(<<>>)
         IN  IF table.raised THEN Raised
             ELSE tables_loop(Tail(table_blocks), Blocks,
                      IF table.value # <<>> THEN Append(tables_, table.value)
                      ELSE tables_)

IsTable(block) == block.BlockType = "TABLE"

extract_tables(Blocks) ==
    tables_loop(SelectSeq(Blocks, IsTable), Blocks, <<>>)

----------------------------------------------------------------------------
(* The documents the model draws.                                          *)

MaxBlocks == 4   \* length of a text document
NumKeys == 2     \* key blocks of a form document
MaxIndex == 2    \* largest row and column index of a cell

NoHas == {}
Word(id, text) == Block(id, "WORD", {"Text"}, text, {}, 0, 0, <<>>)
Other(id, type) == Block(id, type, NoHas, <<>>, {}, 0, 0, <<>>)
Line(id, text) == Block(id, "LINE", {"Text"}, text, {}, 0, 0, <<>>)
LineNoText(id) == Block(id, "LINE", NoHas, <<>>, {}, 0, 0, <<>>)

\* With relationships rels, or without the 'Relationships' key when rels = <<>>.
WithRels(block, rels) ==
    IF rels = <<>> THEN block
    ELSE [block EXCEPT !.has = @ \cup {"Relationships"}, !.Relationships = rels]

KeyValueSet(id, entity, rels) ==
    WithRels(Block(id, "KEY_VALUE_SET", {"EntityTypes"}, <<>>, entity, 0, 0, <<>>), rels)

\* A cell at position pos = <<row, col>>, or <<>> for a cell without indices.
Cell(id, pos, rels) ==
    WithRels(IF pos = <<>> THEN Block(id, "CELL", NoHas, <<>>, {}, 0, 0, <<>>)
             ELSE Block(id, "CELL", {"RowIndex", "ColumnIndex"}, <<>>, {},
                        pos[1], pos[2], <<>>),
             rels)

Table(id, rels) == WithRels(Other(id, "TABLE"), rels)

\* Text documents: every sequence of at most MaxBlocks blocks of these kinds.
BlockIds == [i \in 1..(MaxBlocks + 1) |-> i]
TextKinds == {Line(0, <<>>), Line(0, <<"a">>), Line(0, <<"b", SP>>), LineNoText(0),
              Word(0, <<"a">>), Other(0, "PAGE")}
TextDoc(n, kinds) == [i \in 1..n |-> [kinds[i] EXCEPT !.Id = BlockIds[i]]]
DrawTextDoc ==
    \E n \in 0..MaxBlocks : \E kinds \in [1..n -> TextKinds] :
        text_response = TextDoc(n, kinds)

\* Form documents: NumKeys key blocks, two value blocks, then the words: each
\* key block draws its VALUE and its CHILD relationships, each value block its
\* CHILD relationships.
\* "x9" is the id of no block (a dangling reference); "s1" is no WORD.
KeyIds == <<"k1", "k2", "k3">>
KeyChildChoices ==
    {<<>>,
     <<Rel("CHILD", <<"w1">>)>>,
     <<Rel("CHILD", <<"w3", "w1">>)>>,
     <<Rel("CHILD", <<"x9", "s1">>), Rel("CHILD", <<"w2">>)>>,
     <<Rel("CHILD", <<"w3">>)>>}
ValueChoices ==
    {<<>>,
     <<Rel("VALUE", <<"x9", "v1">>)>>,
     <<Rel("VALUE", <<"w1">>), Rel("VALUE", <<"v2", "v1">>)>>}
Value1ChildChoices ==
    {<<Rel("CHILD", <<"w1">>), Rel("CHILD", <<"w2">>)>>,
     <<Rel("CHILD", <<"x9", "w2">>)>>,
     <<Rel("CHILD", <<"s1", "x9">>)>>}
Value2ChildChoices ==
    {<<>>,
     <<Rel("CHILD", <<"w2">>)>>,
     <<Rel("CHILD", <<"w3">>)>>}
\* The words (w3 is blank), a selection element and a small table.
FormTail ==
    <<Word("w1", <<"a">>), Word("w2", <<"b">>), Word("w3", <<SP>>),
      Other("s1", "SELECTION_ELEMENT"),
      Table("t0", <<Rel("CHILD", <<"x9", "c0">>)>>),
      Cell("c0", <<>>, <<Rel("CHILD", <<"x9", "w1">>)>>)>>
FormDoc(kc, c1, c2) ==
    [i \in 1..NumKeys |-> KeyValueSet(KeyIds[i], {"KEY"}, kc[i][1] \o kc[i][2])]
    \o <<KeyValueSet("v1", {"VALUE"}, c1), KeyValueSet("v2", {}, c2)>>
    \o FormTail
DrawFormDoc ==
    \E kc \in [1..NumKeys -> ValueChoices \X KeyChildChoices] :
        \E c1 \in Value1ChildChoices, c2 \in Value2ChildChoices :
            analyze_response = FormDoc(kc, c1, c2)

\* Table documents: two tables over three cells, whose positions vary.
Positions == {<<>>} \cup ((1..MaxIndex) \X (1..MaxIndex))
Table1Choices ==
    {<<>>,
     <<Rel("CHILD", <<"c1", "c2", "c3">>)>>,
     <<Rel("CHILD", <<"c3", "c2", "c1">>)>>,
     <<Rel("CHILD", <<"c1">>), Rel("CHILD", <<"c2", "c3">>)>>,
     <<Rel("CHILD", <<"x9", "c2", "w1">>)>>,
     <<Rel("CHILD", <<"x9", "w1">>)>>,
     <<Rel("MERGED_CELL", <<"c1">>), Rel("CHILD", <<"c1", "c2">>)>>}
Table2Choices ==
    {<<>>, <<Rel("CHILD", <<"c3">>)>>, <<Rel("CHILD", <<"s1">>)>>}
TableDoc(p1, p2, p3, r1, r2) ==
    <<Table("t1", r1),
      Cell("c1", p1, <<Rel("CHILD", <<"w1">>)>>),
      Cell("c2", p2, <<Rel("CHILD", <<"x9", "w2">>)>>),
      Cell("c3", p3, <<Rel("CHILD", <<"s1">>), Rel("CHILD", <<"w2", "w1">>)>>),
      Word("w1", <<"a">>), Word("w2", <<"b">>),
      Other("s1", "SELECTION_ELEMENT"),
      Table("t2", r2)>>
DrawTableDoc ==
    \E p1 \in Positions, p2 \in Positions, p3 \in Positions :
        \E r1 \in Table1Choices, r2 \in Table2Choices :
            analyze_response = TableDoc(p1, p2, p3, r1, r2)

----------------------------------------------------------------------------
(* The extractors applied to one response.                                 *)

Idle ==
    /\ event = [kind |-> "direct", bucket |-> "", key |-> <<>>]
    /\ env_bucket = ""
    /\ calls = <<>>
    /\ s3_objects = {}
    /\ response = [statusCode |-> 0]

NotRun ==
    /\ extracted_text = Ok(<<>>)
    /\ forms = Ok(EmptyDict)
    /\ tables = Ok(<<>>)

InitText ==
    /\ Idle /\ NotRun
    /\ DrawTextDoc
    /\ analyze_response = <<>>
    /\ pc = "extract_text"

InitForms ==
    /\ Idle /\ NotRun
    /\ text_response = <<>>
    /\ DrawFormDoc
    /\ pc = "extract_forms"

InitTables ==
    /\ Idle /\ NotRun
    /\ text_response = <<>>
    /\ DrawTableDoc
    /\ pc = "extract_tables"

InitAnalyze ==
    /\ Idle /\ NotRun
    /\ text_response = <<>>
    /\ (DrawFormDoc \/ DrawTableDoc)
    /\ pc = "extract_forms"

ApplyExtractText ==
    /\ pc = "extract_text"
    /\ extracted_text' = extract_text(text_response)
    /\ pc' = "returned"
    /\ UNCHANGED <<event, env_bucket, text_response, analyze_response, forms,
                   tables, calls, s3_objects, response>>

ApplyExtractForms ==
    /\ pc = "extract_forms"
    /\ forms' = extract_forms(analyze_response)
    /\ pc' = "forms_returned"
    /\ UNCHANGED <<event, env_bucket, text_response, analyze_response,
                   extracted_text, tables, calls, s3_objects, response>>

ApplyExtractTables ==
    /\ pc \in {"extract_tables", "forms_returned"}
    /\ tables' = extract_tables(analyze_response)
    /\ pc' = "returned"
    /\ UNCHANGED <<event, env_bucket, text_response, analyze_response,
                   extracted_text, forms, calls, s3_objects, response>>

SpecText == InitText /\ [][ApplyExtractText]_vars
SpecForms == InitForms /\ [][ApplyExtractForms]_vars
SpecTables == InitTables /\ [][ApplyExtractTables]_vars
SpecAnalyze == InitAnalyze /\ [][ApplyExtractForms \/ ApplyExtractTables]_vars

----------------------------------------------------------------------------
(* lambda_handler                                                          *)

\* An event: a direct invocation (kind "direct"), or an API Gateway event whose
\* 'body' is a dict ("body_dict"), a JSON text of an object ("body_json"), a
\* text that is no JSON ("body_bad_json") or null ("body_null").  bucket is ""
\* and key is <<>> when the parameter is missing; a key is its path segments.
EventKinds == {"direct", "body_dict", "body_json", "body_bad_json", "body_null"}
ParsedKinds == {"direct", "body_dict", "body_json"}
Events ==
    [kind : ParsedKinds, bucket : {"", "docs"}, key : {<<>>, <<"in", "scan.pdf">>}]
    \cup [kind : EventKinds \ ParsedKinds, bucket : {""}, key : {<<>>}]

\* Lines 17-27 raise: json.loads of a text that is no JSON, or None.get.
parse_raises(ev) == ev.kind \in {"body_bad_json", "body_null"}

\* body.get('bucket') or os.environ.get('DOCUMENT_BUCKET')
bucket_of(ev, env) == IF ev.bucket # "" THEN ev.bucket ELSE env

\* body.get('key')
key_of(ev) == ev.key

\* The responses the analysis service may give the handler.
HandlerTextDocs ==
    {<<>>,
     <<Other(1, "PAGE"), Line(2, <<"a">>), Word(3, <<"a">>), Line(4, <<>>)>>,
     <<Other(1, "PAGE"), LineNoText(2)>>}
HandlerAnalyzeDocs ==
    {<<>>,
     <<KeyValueSet("k1", {"KEY"}, <<Rel("VALUE", <<"v1">>), Rel("CHILD", <<"w1">>)>>),
       KeyValueSet("v1", {"VALUE"}, <<Rel("CHILD", <<"w2">>)>>),
       Word("w1", <<"a">>), Word("w2", <<"b">>),
       Table("t1", <<Rel("CHILD", <<"c1">>)>>),
       Cell("c1", <<1, 1>>, <<Rel("CHILD", <<"w1">>)>>)>>,
     <<KeyValueSet("k1", {"KEY"}, <<Rel("CHILD", <<"w1">>)>>),
       Other("w1", "WORD")>>,
     <<Table("t1", <<Rel("CHILD", <<"c1">>)>>),
       Cell("c1", <<1, 1>>, <<Rel("CHILD", <<"w1">>)>>),
       Other("w1", "WORD")>>}

PreviewLen == 500

\* A call of a service client, and whether it returned (ok) or raised.
Call(op, ok) == [op |-> op, ok |-> ok]

\* len([b for b in text_response['Blocks'] if b['BlockType'] == type])
RECURSIVE count_type(_, _)
count_type(Blocks, type) ==
    IF Blocks = <<>> THEN 0
    ELSE (IF Head(Blocks).BlockType = type THEN 1 ELSE 0) + count_type(Tail(Blocks), type)

\* The result dict of lines 67-84, without processed_at (the clock's reading)
\* and file_type (the key's extension).
result_of(bucket, key, text_blocks, text, forms_, tables_) ==
    [document_info |-> [source |-> <<bucket, key>>,
                        page_count |-> count_type(text_blocks, "PAGE")],
     extracted_text |-> text,
     forms |-> forms_,
     tables |-> tables_,
     statistics |-> [total_blocks |-> Len(text_blocks),
                     words |-> count_type(text_blocks, "WORD"),
                     lines |-> count_type(text_blocks, "LINE"),
                     forms_found |-> DictLen(forms_),
                     tables_found |-> Len(tables_)]]

\* f"results/{key.split('/')[-1]}.json"
result_key_of(key) == <<"results", key[Len(key)], ".json">>

\* extracted_text[:500] + '...' if len(extracted_text) > 500 else extracted_text
preview_of(text) ==
    IF Len(text) > PreviewLen
    THEN SubSeq(text, 1, PreviewLen) \o <<".", ".", ".">>
    ELSE text

Init ==
    /\ event \in Events
    /\ env_bucket \in {"", "env-docs"}
    /\ text_response = <<>>
    /\ analyze_response = <<>>
    /\ pc = "start"
    /\ NotRun
    /\ calls = <<>>
    /\ s3_objects = {}
    /\ response = [statusCode |-> 0]

\* Lines 17-33: the event is read; 400 when bucket or key is missing.
ParseEvent ==
    /\ pc = "start"
    /\ IF parse_raises(event)
       THEN pc' = "except" /\ UNCHANGED response
       ELSE IF bucket_of(event, env_bucket) = "" \/ key_of(event) = <<>>
       THEN /\ pc' = "done"
            /\ response' = [statusCode |-> 400,
                            error |-> "Missing bucket or key parameter"]
       ELSE pc' = "detect" /\ UNCHANGED response
    /\ UNCHANGED <<event, env_bucket, text_response, analyze_response,
                   extracted_text, forms, tables, calls, s3_objects>>

\* Lines 39-46: detect_document_text returns a response or raises.
DetectDocumentText ==
    /\ pc = "detect"
    /\ \/ \E doc \in HandlerTextDocs :
             /\ text_response' = doc
             /\ calls' = Append(calls, Call("detect_document_text", TRUE))
             /\ pc' = "extract_text"
       \/ /\ calls' = Append(calls, Call("detect_document_text", FALSE))
          /\ pc' = "except"
          /\ UNCHANGED text_response
    /\ UNCHANGED <<event, env_bucket, analyze_response, extracted_text, forms,
                   tables, s3_objects, response>>

\* Line 49
ExtractText ==
    /\ pc = "extract_text"
    /\ extracted_text' = extract_text(text_response)
    /\ pc' = IF extracted_text'.raised THEN "except" ELSE "analyze"
    /\ UNCHANGED <<event, env_bucket, text_response, analyze_response, forms,
                   tables, calls, s3_objects, response>>

\* Lines 52-60: analyze_document returns a response or raises.
AnalyzeDocument ==
    /\ pc = "analyze"
    /\ \/ \E doc \in HandlerAnalyzeDocs :
             /\ analyze_response' = doc
             /\ calls' = Append(calls, Call("analyze_document", TRUE))
             /\ pc' = "extract_forms"
       \/ /\ calls' = Append(calls, Call("analyze_document", FALSE))
          /\ pc' = "except"
          /\ UNCHANGED analyze_response
    /\ UNCHANGED <<event, env_bucket, text_response, extracted_text, forms,
                   tables, s3_objects, response>>

\* Line 63
ExtractForms ==
    /\ pc = "extract_forms"
    /\ forms' = extract_forms(analyze_response)
    /\ pc' = IF forms'.raised THEN "except" ELSE "extract_tables"
    /\ UNCHANGED <<event, env_bucket, text_response, analyze_response,
                   extracted_text, tables, calls, s3_objects, response>>

\* Line 64
ExtractTables ==
    /\ pc = "extract_tables"
    /\ tables' = extract_tables(analyze_response)
    /\ pc' = IF tables'.raised THEN "except" ELSE "put"
    /\ UNCHANGED <<event, env_bucket, text_response, analyze_response,
                   extracted_text, forms, calls, s3_objects, response>>

\* Lines 67-93: the result is built and put_object writes it or raises.
PutObject ==
    /\ pc = "put"
    /\ \/ /\ calls' = Append(calls, Call("put_object", TRUE))
          /\ s3_objects' = s3_objects \cup
                {[Bucket |-> bucket_of(event, env_bucket),
                  Key |-> result_key_of(key_of(event)),
                  Body |-> result_of(bucket_of(event, env_bucket), key_of(event),
                                     text_response, extracted_text.value,
                                     forms.value, tables.value)]}
          /\ pc' = "return"
       \/ /\ calls' = Append(calls, Call("put_object", FALSE))
          /\ pc' = "except"
          /\ UNCHANGED s3_objects
    /\ UNCHANGED <<event, env_bucket, text_response, analyze_response,
                   extracted_text, forms, tables, response>>

\* Lines 95-109
Return200 ==
    /\ pc = "return"
    /\ response' = [statusCode |-> 200,
                    result_location |-> <<bucket_of(event, env_bucket),
                                          result_key_of(key_of(event))>>,
                    preview |-> preview_of(extracted_text.value)]
    /\ pc' = "done"
    /\ UNCHANGED <<event, env_bucket, text_response, analyze_response,
                   extracted_text, forms, tables, calls, s3_objects>>

\* Lines 111-121: except Exception
Return500 ==
    /\ pc = "except"
    /\ response' = [statusCode |-> 500, message |-> "Failed to process document"]
    /\ pc' = "done"
    /\ UNCHANGED <<event, env_bucket, text_response, analyze_response,
                   extracted_text, forms, tables, calls, s3_objects>>

Next ==
    \/ ParseEvent
    \/ DetectDocumentText
    \/ ExtractText
    \/ AnalyzeDocument
    \/ ExtractForms
    \/ ExtractTables
    \/ PutObject
    \/ Return200
    \/ Return500

Spec == Init /\ [][Next]_vars

----------------------------------------------------------------------------
(* What the claims speak of, stated from the block collection alone.       *)

\* str.split(sep)
RECURSIVE split(_, _)
split(s, sep) ==
    IF \A i \in 1..Len(s) : s[i] # sep THEN <<s>>
    ELSE LET i == CHOOSE k \in 1..Len(s) : s[k] = sep /\ \A m \in 1..(k - 1) : s[m] # sep
         IN  <<SubSeq(s, 1, i - 1)>> \o split(SubSeq(s, i + 1, Len(s)), sep)

IsLine(block) == block.BlockType = "LINE"
LineBlocks(Blocks) == SelectSeq(Blocks, IsLine)
LineTexts(Blocks) == [i \in 1..Len(LineBlocks(Blocks)) |-> LineBlocks(Blocks)[i].Text]
AllLinesHaveText(Blocks) ==
    \A i \in 1..Len(Blocks) : IsLine(Blocks[i]) => HasKey(Blocks[i], "Text")

\* The target ids of a block's relationships of one type, in listed order.
RECURSIVE FlatIds(_, _)
FlatIds(Rels, type) ==
    IF Rels = <<>> THEN <<>>
    ELSE (IF Head(Rels).Type = type THEN Head(Rels).Ids ELSE <<>>)
         \o FlatIds(Tail(Rels), type)
TargetIds(block, type) ==
    IF HasKey(block, "Relationships") THEN FlatIds(block.Relationships, type) ELSE <<>>

Resolves(Blocks, id) == \E i \in 1..Len(Blocks) : Blocks[i].Id = id
BlockOf(Blocks, id) == Blocks[CHOOSE i \in 1..Len(Blocks) : Blocks[i].Id = id]

\* The display text of a block: the texts of its WORD children, joined by a
\* space and trimmed.
WordTexts(block, Blocks) ==
    LET IsWord(id) == Resolves(Blocks, id) /\ BlockOf(Blocks, id).BlockType = "WORD"
        ids == SelectSeq(TargetIds(block, "CHILD"), IsWord)
    IN  [i \in 1..Len(ids) |-> BlockOf(Blocks, ids[i]).Text]
ResolvedText(block, Blocks) == strip(join(SP, WordTexts(block, Blocks)))

IsKeyBlock(block) ==
    block.BlockType = "KEY_VALUE_SET" /\ "KEY" \in block.EntityTypes
IsValueBlock(block) ==
    block.BlockType = "KEY_VALUE_SET" /\ "KEY" \notin block.EntityTypes

\* The value block a key block is paired with (<<>> when none): the first
\* VALUE target that is a value block.
PairedValue(key_block, Blocks) ==
    LET IsValue(id) == Resolves(Blocks, id) /\ IsValueBlock(BlockOf(Blocks, id))
        ids == SelectSeq(TargetIds(key_block, "VALUE"), IsValue)
    IN  IF ids = <<>> THEN <<>> ELSE <<BlockOf(Blocks, ids[1])>>

KeyText(i) == ResolvedText(analyze_response[i], analyze_response)
ValueText(i) ==
    LET v == PairedValue(analyze_response[i], analyze_response)
    IN  IF v = <<>> THEN <<>> ELSE ResolvedText(v[1], analyze_response)

\* Block i is a key block with a paired value block and both texts non-empty.
Qualifies(i) ==
    /\ IsKeyBlock(analyze_response[i])
    /\ PairedValue(analyze_response[i], analyze_response) # <<>>
    /\ KeyText(i) # <<>>
    /\ ValueText(i) # <<>>

\* The last qualifying key block with the key text of block i.
LastWithKeyText(i) ==
    CHOOSE j \in 1..Len(analyze_response) :
        /\ Qualifies(j) /\ KeyText(j) = KeyText(i)
        /\ \A m \in (j + 1)..Len(analyze_response) :
               ~(Qualifies(m) /\ KeyText(m) = KeyText(i))

----------------------------------------------------------------------------
(* extract_text: C1, C7                                                    *)

\* C1: when every LINE block carries a text, extract_text returns the texts
\* of the LINE blocks, in collection order, joined by single newlines: split
\* at the newlines, the output is the sequence of the LINE texts (and it is
\* empty when there is no LINE block), whatever other blocks lie between.
C1_TextOrder ==
    (pc = "returned" /\ AllLinesHaveText(text_response)) =>
        /\ ~extracted_text.raised
        /\ IF LineBlocks(text_response) = <<>>
           THEN extracted_text.value = <<>>
           ELSE split(extracted_text.value, NL) = LineTexts(text_response)

\* Two LINE blocks with different texts, another block between them.
C1_Witness ==
    /\ pc = "returned"
    /\ AllLinesHaveText(text_response)
    /\ ~extracted_text.raised
    /\ \E i, j, k \in 1..Len(text_response) :
          /\ i < j /\ j < k
          /\ IsLine(text_response[i]) /\ ~IsLine(text_response[j])
          /\ IsLine(text_response[k])
          /\ text_response[i].Text # text_response[k].Text

\* C7: a LINE block whose text is absent or empty contributes an empty line:
\* extract_text does not fail and its output has as many newline-separated
\* lines as there are LINE blocks.
C7_EmptyLineKept ==
    (/\ pc = "returned"
     /\ \E i \in 1..Len(text_response) :
           /\ IsLine(text_response[i])
           /\ (~HasKey(text_response[i], "Text") \/ text_response[i].Text = <<>>))
    => /\ ~extracted_text.raised
       /\ Len(split(extracted_text.value, NL)) = Len(LineBlocks(text_response))

\* The part of C7 that holds: a LINE block whose text is present and empty.
EmptyTextLineKept ==
    (/\ pc = "returned"
     /\ AllLinesHaveText(text_response)
     /\ LineBlocks(text_response) # <<>>)
    => /\ ~extracted_text.raised
       /\ Len(split(extracted_text.value, NL)) = Len(LineBlocks(text_response))

----------------------------------------------------------------------------
(* extract_forms: C2, C3                                                   *)

\* C2 as claimed: the mapping holds the pair (key text, value text) of every
\* key block that has a paired value block and non-empty texts on both sides.
C2_FormCompleteness ==
    pc = "forms_returned" =>
        /\ ~forms.raised
        /\ \A i \in 1..Len(analyze_response) :
              Qualifies(i) =>
                  /\ DictHas(forms.value, KeyText(i))
                  /\ DictGet(forms.value, KeyText(i)) = ValueText(i)

\* C2 as amended: the mapping holds the key text of every such key block, and
\* maps it to the value text of the last such key block, in collection order,
\* that has this key text (so to the block's own value text unless a later
\* one has the same key text).
C2_FormCompletenessLastWins ==
    pc = "forms_returned" =>
        /\ ~forms.raised
        /\ \A i \in 1..Len(analyze_response) :
              Qualifies(i) =>
                  /\ DictHas(forms.value, KeyText(i))
                  /\ DictGet(forms.value, KeyText(i)) = ValueText(LastWithKeyText(i))

\* Two qualifying key blocks of one key text and different value texts.
C2_Witness ==
    /\ pc = "forms_returned"
    /\ ~forms.raised
    /\ \E i, j \in 1..Len(analyze_response) :
          /\ i < j /\ Qualifies(i) /\ Qualifies(j)
          /\ KeyText(i) = KeyText(j) /\ ValueText(i) # ValueText(j)
          /\ DictGet(forms.value, KeyText(i)) = ValueText(j)

\* C3: every entry of the mapping has a non-empty key text and a non-empty
\* value text and is the pair of a key block with a paired value block and
\* non-empty texts on both sides: a key block of empty key text, or without a
\* value block, or whose value block resolves to empty text, contributes none.
C3_FormFiltering ==
    pc = "forms_returned" =>
        /\ ~forms.raised
        /\ \A k \in DOMAIN forms.value.val :
              /\ k # <<>>
              /\ forms.value.val[k] # <<>>
              /\ \E i \in 1..Len(analyze_response) :
                    /\ Qualifies(i)
                    /\ KeyText(i) = k
                    /\ ValueText(i) = forms.value.val[k]

\* A key block of non-empty key text whose value block has CHILD relationships
\* that reference no WORD block is left out, while another pair is kept.
C3_Witness ==
    /\ pc = "forms_returned"
    /\ ~forms.raised
    /\ DictLen(forms.value) > 0
    /\ \E i \in 1..Len(analyze_response) :
          LET v == PairedValue(analyze_response[i], analyze_response) IN
          /\ IsKeyBlock(analyze_response[i])
          /\ KeyText(i) # <<>>
          /\ v # <<>>
          /\ TargetIds(v[1], "CHILD") # <<>>
          /\ WordTexts(v[1], analyze_response) = <<>>
          /\ ~DictHas(forms.value, KeyText(i))

----------------------------------------------------------------------------
(* extract_tables: C4, C6, C8, C9                                          *)

\* The k-th smallest element of a set of integers, and the rank of an element.
Kth(S, k) == CHOOSE x \in S : Cardinality({y \in S : y < x}) = k - 1
RankIn(S, x) == Cardinality({y \in S : y < x}) + 1

\* The indices of the CELL blocks that ids lists.
CellsIn(ids) ==
    {j \in 1..Len(analyze_response) :
        /\ analyze_response[j].BlockType = "CELL"
        /\ InList(analyze_response[j].Id, ids)}

\* The resolved CELL children of the table at index t, over all of its CHILD
\* relationships.
CellsOf(t) == CellsIn(TargetIds(analyze_response[t], "CHILD"))

RowOf(j) == row_index_of(analyze_response[j])
ColOf(j) == col_index_of(analyze_response[j])
CellText(j) == ResolvedText(analyze_response[j], analyze_response)

\* Among the cells C: the row indices, the column indices of row r, and the
\* cells at position (r, c).
RowsAmong(C) == {RowOf(j) : j \in C}
ColsAmong(C, r) == {ColOf(j) : j \in {m \in C : RowOf(m) = r}}
CellsAt(C, r, c) == {j \in C : RowOf(j) = r /\ ColOf(j) = c}

\* The indices of the TABLE blocks with at least one resolved CELL child, in
\* collection order: the n-th grid emitted is that of the n-th of them.
TablesWithCells ==
    LET HasCells(t) == IsTable(analyze_response[t]) /\ CellsOf(t) # {}
    IN  SelectSeq([i \in 1..Len(analyze_response) |-> i], HasCells)

\* The CHILD relationships of a block, in listed order.
ChildRels(block) ==
    LET IsChild(rel) == rel.Type = "CHILD"
    IN  IF HasKey(block, "Relationships")
        THEN SelectSeq(block.Relationships, IsChild) ELSE <<>>

\* C6: a TABLE block without a resolved CELL child contributes nothing: no
\* grid of the result is empty, and the result has as many grids as there are
\* TABLE blocks with at least one resolved CELL child.
C6_EmptyTableOmitted ==
    pc = "returned" =>
        /\ ~tables.raised
        /\ \A n \in 1..Len(tables.value) : tables.value[n] # <<>>
        /\ Len(tables.value) = Len(TablesWithCells)

\* A table whose CHILD targets are all dangling or no CELL is left out, and the
\* one grid of the result is that of another table, which has a cell.
C6_Witness ==
    /\ pc = "returned"
    /\ ~tables.raised
    /\ Len(tables.value) = 1
    /\ \E t, u \in 1..Len(analyze_response) :
          /\ IsTable(analyze_response[t]) /\ IsTable(analyze_response[u])
          /\ TargetIds(analyze_response[t], "CHILD") # <<>>
          /\ CellsOf(t) = {}
          /\ CellsOf(u) # {}

\* C9: the grid of every table has exactly one row per distinct row index of
\* the table's resolved CELL children, in ascending row-index order: its k-th
\* row holds texts of the cells of the k-th smallest row index.
C9_OneRowPerIndex ==
    pc = "returned" =>
        /\ ~tables.raised
        /\ Len(tables.value) = Len(TablesWithCells)
        /\ \A n \in 1..Len(tables.value) :
              LET grid == tables.value[n]
                  C == CellsOf(TablesWithCells[n])
              IN  /\ Len(grid) = Cardinality(RowsAmong(C))
                  /\ \A k \in 1..Len(grid) : \A m \in 1..Len(grid[k]) :
                        \E j \in C : /\ RowOf(j) = Kth(RowsAmong(C), k)
                                     /\ grid[k][m] = CellText(j)

\* C4: every emitted row holds exactly the texts of the column indices present
\* for its row index, in ascending column order, and no padding: the k-th row
\* of a grid is as long as the number of column indices of the k-th smallest
\* row index, and its m-th text is that of a cell at the m-th smallest of them.
C4_GridShape ==
    pc = "returned" =>
        /\ ~tables.raised
        /\ Len(tables.value) = Len(TablesWithCells)
        /\ \A n \in 1..Len(tables.value) :
              LET grid == tables.value[n]
                  C == CellsOf(TablesWithCells[n])
              IN  \A k \in 1..Len(grid) :
                      /\ k <= Cardinality(RowsAmong(C))
                      /\ LET r == Kth(RowsAmong(C), k) IN
                         /\ Len(grid[k]) = Cardinality(ColsAmong(C, r))
                         /\ \A m \in 1..Len(grid[k]) :
                               \E j \in CellsAt(C, r, Kth(ColsAmong(C, r), m)) :
                                   grid[k][m] = CellText(j)

\* C4 and C9 hold of the tables whose cells are listed in one CHILD relationship.
GridShapeOfOneRelationship ==
    pc = "returned" =>
        /\ ~tables.raised
        /\ Len(tables.value) = Len(TablesWithCells)
        /\ \A n \in 1..Len(tables.value) :
              LET grid == tables.value[n]
                  C == CellsOf(TablesWithCells[n])
              IN  Len(ChildRels(analyze_response[TablesWithCells[n]])) = 1 =>
                  /\ Len(grid) = Cardinality(RowsAmong(C))
                  /\ \A k \in 1..Len(grid) :
                        LET r == Kth(RowsAmong(C), k) IN
                        /\ Len(grid[k]) = Cardinality(ColsAmong(C, r))
                        /\ \A m \in 1..Len(grid[k]) :
                              \E j \in CellsAt(C, r, Kth(ColsAmong(C, r), m)) :
                                  grid[k][m] = CellText(j)

\* The cells that the q-th CHILD relationship of table t lists, and the number
\* of rows emitted for the CHILD relationships before it.
CellsOfRel(t, q) == CellsIn(ChildRels(analyze_response[t])[q].Ids)
RECURSIVE RowsBefore(_, _)
RowsBefore(t, q) ==
    IF q = 1 THEN 0
    ELSE RowsBefore(t, q - 1) + Cardinality(RowsAmong(CellsOfRel(t, q - 1)))

\* The place of a cell's id in an id list (its last, should it be listed twice).
ListPos(ids, j) ==
    CHOOSE p \in 1..Len(ids) :
        /\ ids[p] = analyze_response[j].Id
        /\ \A p2 \in (p + 1)..Len(ids) : ids[p2] # analyze_response[j].Id

\* C8 as claimed, for a table whose cells are listed in one CHILD relationship:
\* of the cells of one (row, column), the text kept at that grid position is
\* that of the cell whose id comes last in the relationship's id list.
C8_LaterInListWins ==
    pc = "returned" =>
        /\ ~tables.raised
        /\ Len(tables.value) = Len(TablesWithCells)
        /\ \A n \in 1..Len(tables.value) :
              LET t == TablesWithCells[n]
                  grid == tables.value[n]
                  C == CellsOf(t)
                  ids == TargetIds(analyze_response[t], "CHILD")
              IN  Len(ChildRels(analyze_response[t])) = 1 =>
                  \A j \in C :
                      (\A j2 \in CellsAt(C, RowOf(j), ColOf(j)) :
                           ListPos(ids, j2) <= ListPos(ids, j))
                      => grid[RankIn(RowsAmong(C), RowOf(j))]
                             [RankIn(ColsAmong(C, RowOf(j)), ColOf(j))] = CellText(j)

\* C8 as amended: of the cells of one (row, column) that one CHILD relationship
\* of a table lists, the text kept at that position of the rows emitted for
\* the relationship is that of the cell that comes last in the block
\* collection, whatever the order of the ids in the id list.
C8_LaterInCollectionWins ==
    pc = "returned" =>
        /\ ~tables.raised
        /\ Len(tables.value) = Len(TablesWithCells)
        /\ \A n \in 1..Len(tables.value) :
              LET t == TablesWithCells[n]
                  grid == tables.value[n]
              IN  \A q \in 1..Len(ChildRels(analyze_response[t])) :
                      LET C == CellsOfRel(t, q) IN
                      \A j \in C :
                          (\A j2 \in CellsAt(C, RowOf(j), ColOf(j)) : j2 <= j)
                          => LET row == RowsBefore(t, q) + RankIn(RowsAmong(C), RowOf(j))
                                 col == RankIn(ColsAmong(C, RowOf(j)), ColOf(j))
                             IN  /\ row <= Len(grid)
                                 /\ col <= Len(grid[row])
                                 /\ grid[row][col] = CellText(j)

\* Two cells of one (row, column) and different texts, listed in one CHILD
\* relationship in the reverse of their order in the collection: the text
\* kept is that of the later cell of the collection, listed first.
C8_Witness ==
    /\ pc = "returned"
    /\ ~tables.raised
    /\ Len(tables.value) = Len(TablesWithCells)
    /\ \E n \in 1..Len(tables.value) :
          LET t == TablesWithCells[n]
              grid == tables.value[n]
              C == CellsOf(t)
              ids == TargetIds(analyze_response[t], "CHILD")
          IN  /\ Len(ChildRels(analyze_response[t])) = 1
              /\ \E j1, j2 \in C :
                    /\ j1 < j2
                    /\ RowOf(j1) = RowOf(j2) /\ ColOf(j1) = ColOf(j2)
                    /\ ListPos(ids, j2) < ListPos(ids, j1)
                    /\ CellText(j1) # CellText(j2)
                    /\ \A j3 \in CellsAt(C, RowOf(j2), ColOf(j2)) : j3 <= j2
                    /\ grid[RankIn(RowsAmong(C), RowOf(j2))]
                           [RankIn(ColsAmong(C, RowOf(j2)), ColOf(j2))] = CellText(j2)

----------------------------------------------------------------------------
(* Dangling references: C5                                                 *)

\* The collection with every target id that is the id of no block taken out of
\* the id lists.
StripDangling(Blocks) ==
    LET Known(id) == Resolves(Blocks, id)
        Strip(rel) == [rel EXCEPT !.Ids = SelectSeq(@, Known)]
    IN  [i \in 1..Len(Blocks) |->
            [Blocks[i] EXCEPT !.Relationships = [q \in 1..Len(@) |-> Strip(@[q])]]]

\* Some relationship of type `type` of a block of type `of` lists a dangling id.
HasDangling(Blocks, of, type) ==
    \E i \in 1..Len(Blocks) :
        /\ Blocks[i].BlockType = of
        /\ \E p \in 1..Len(TargetIds(Blocks[i], type)) :
              ~Resolves(Blocks, TargetIds(Blocks[i], type)[p])

\* C5: with target ids absent from the collection in CHILD or VALUE
\* relationships, extract_forms and extract_tables do not raise, and return
\* what they return for the collection without those ids.
C5_DanglingTolerated ==
    /\ pc \in {"forms_returned", "returned"} =>
          /\ ~forms.raised
          /\ forms = extract_forms(StripDangling(analyze_response))
    /\ pc = "returned" =>
          /\ ~tables.raised
          /\ tables = extract_tables(StripDangling(analyze_response))

\* Dangling ids in the VALUE and CHILD relationships of a key-value set, in
\* the CHILD relationships of a table and of a cell, and both results filled.
C5_Witness ==
    /\ pc = "returned"
    /\ HasDangling(analyze_response, "KEY_VALUE_SET", "VALUE")
    /\ HasDangling(analyze_response, "KEY_VALUE_SET", "CHILD")
    /\ HasDangling(analyze_response, "TABLE", "CHILD")
    /\ HasDangling(analyze_response, "CELL", "CHILD")
    /\ ~forms.raised /\ DictLen(forms.value) > 0
    /\ ~tables.raised /\ Len(tables.value) > 0

----------------------------------------------------------------------------
(* lambda_handler: C10                                                     *)

\* The bucket or the key is missing from the invocation.
MissingParameter == bucket_of(event, env_bucket) = "" \/ key_of(event) = <<>>

\* A step of the handler failed.
StepFailed ==
    \/ parse_raises(event)
    \/ \E i \in 1..Len(calls) : ~calls[i].ok
    \/ extracted_text.raised \/ forms.raised \/ tables.raised

CallOps == [i \in 1..Len(calls) |-> calls[i].op]

\* The result is written only after both analysis calls and the three
\* extractions went through, and it is the whole result; 200 is returned only
\* after the write; a failed step ends in 500 with nothing written.
HandlerAllOrNothing ==
    /\ s3_objects # {} =>
          /\ ~StepFailed
          /\ CallOps = <<"detect_document_text", "analyze_document", "put_object">>
          /\ pc \in {"return", "done"}
          /\ s3_objects =
                {[Bucket |-> bucket_of(event, env_bucket),
                  Key |-> result_key_of(key_of(event)),
                  Body |-> result_of(bucket_of(event, env_bucket), key_of(event),
                                     text_response, extract_text(text_response).value,
                                     extract_forms(analyze_response).value,
                                     extract_tables(analyze_response).value)]}
    /\ response.statusCode = 200 => s3_objects # {}
    /\ (pc = "done" /\ StepFailed) =>
          response.statusCode = 500 /\ s3_objects = {}

\* C10: HandlerAllOrNothing, and a missing bucket or key ends in 400 without a
\* call of the analysis service or of storage.
C10_AllOrNothing ==
    /\ HandlerAllOrNothing
    /\ (pc = "done" /\ MissingParameter) =>
          response.statusCode = 400 /\ calls = <<>>

\* What holds of a missing bucket or key: 400 when the event could be read,
\* 500 when reading it raised; no call in either case.
MissingParameterOutcome ==
    (pc = "done" /\ MissingParameter) =>
        /\ calls = <<>>
        /\ response.statusCode = IF parse_raises(event) THEN 500 ELSE 400

=============================================================================
